---- MODULE Spec2Model ----
(* State machine of the requirement formatter: the App component's state    *)
(* (App.tsx), the InputPanel handlers and rendered guards (InputPanel.tsx), *)
(* and the generation client formatRequirements (geminiService.ts).         *)
(* Strings are sequences of tokens; a file name is <<base, extension>>.     *)
EXTENDS Integers, Sequences, FiniteSets, TLC

VARIABLES rawText, files, formattedResult, status, error,
          requests, readers, lastOp, lastDone, download

vars == <<rawText, files, formattedResult, status, error,
          requests, readers, lastOp, lastDone, download>>

(* ---------------------------------------------------------------- bounds *)
MaxText == 8
MaxFiles == 2
MaxBatch == 2
MaxReaders == 2
MaxRequests == 2
MaxDirect == 1

(* ------------------------------------------------------------- constants *)
null == <<>>
Some(v) == <<v>>

AppStatus == {"IDLE", "LOADING", "SUCCESS", "ERROR"}

ALLOWED_BINARY_TYPES ==
  {"image/jpeg", "image/png", "image/webp", "image/gif", "application/pdf",
   "application/msword",
   "application/vnd.openxmlformats-officedocument.wordprocessingml.document",
   "application/vnd.ms-powerpoint",
   "application/vnd.openxmlformats-officedocument.presentationml.presentation"}

ALLOWED_TEXT_TYPES == {"text/plain", "text/markdown"}

(* The File objects a user can select or drop.  Two distinct files share   *)
(* the name a.png; x.HWP is declared as plain text; z.zip is unsupported.  *)
FileUniverse ==
  { [name |-> <<"a", ".png">>, type |-> "image/png",       data |-> <<"1">>],
    [name |-> <<"a", ".png">>, type |-> "image/png",       data |-> <<"2">>],
    [name |-> <<"n", ".txt">>, type |-> "text/plain",      data |-> <<"t">>],
    [name |-> <<"x", ".HWP">>, type |-> "text/plain",      data |-> <<"u">>],
    [name |-> <<"z", ".zip">>, type |-> "application/zip", data |-> <<"3">>] }

(* Values the textarea's onChange can deliver. *)
TypedTexts == { <<>>, <<" ">>, <<"a">> }

(* ------------------------------------------------------ string functions *)
WhiteSpace == {" ", "\n", "\n\n"}

RECURSIVE TrimStart(_)
TrimStart(s) ==
  IF s = <<>> THEN s
  ELSE IF Head(s) \in WhiteSpace THEN TrimStart(Tail(s)) ELSE s

RECURSIVE TrimEnd(_)
TrimEnd(s) ==
  IF s = <<>> THEN s
  ELSE IF s[Len(s)] \in WhiteSpace THEN TrimEnd(SubSeq(s, 1, Len(s) - 1)) ELSE s

trim(s) == TrimEnd(TrimStart(s))

toLowerCase(name) ==
  [i \in 1..Len(name) |-> IF name[i] = ".HWP" THEN ".hwp" ELSE name[i]]

endsWith(name, suffix) == Len(name) > 0 /\ name[Len(name)] = suffix

(* Array.prototype.filter is SelectSeq of the Sequences module. *)
Names(s) == { s[i].name : i \in 1..Len(s) }

(* ------------------------------------------------- InputPanel.tsx (1) *)
IsBinaryFile(file) ==
  \/ file.type \in ALLOWED_BINARY_TYPES
  \/ endsWith(toLowerCase(file.name), ".hwp")

IsTextFile(file) == file.type \in ALLOWED_TEXT_TYPES

binaryFiles(allFiles) == SelectSeq(allFiles, IsBinaryFile)
textFiles(allFiles) == SelectSeq(allFiles, IsTextFile)

(* The updater passed to setFiles: keep prev, add the binary files whose   *)
(* name is not among the names of prev.                                    *)
AddFiles(prev, allFiles) ==
  LET existingNames == Names(prev)
      NotExisting(f) == f.name \notin existingNames
      newFiles == SelectSeq(binaryFiles(allFiles), NotExisting)
  IN  prev \o newFiles

(* The separator is "\n\n--- (<file.name> 파일 내용) ---\n" in the source;  *)
(* the Korean words (file content) are written in ASCII here.              *)
Separator(name) ==
  <<"\n\n", "--- (">> \o name \o <<" file content) ---", "\n">>

(* Mutation: the content is appended without the separator. *)
AppendTextNoSeparator(prev, file, text) == prev \o text

(* Mutation: a completion sets the buffer to its own content. *)
AppendTextOverwrite(prev, file, text) == text

(* The updater passed to setRawText by reader.onload. *)
AppendText(prev, file, text) ==
  IF prev # <<>> THEN prev \o Separator(file.name) \o text ELSE text

(* A FileList: one to MaxBatch distinct File objects, in any order. *)
FileLists ==
  { l \in UNION { [1..n -> FileUniverse] : n \in 1..MaxBatch } :
      \A i, j \in 1..Len(l) : i # j => l[i] # l[j] }

(* --------------------------------------------------- geminiService.ts *)
EmptyInputMessage == "Input text or files cannot be empty."
ParseFailedMessage ==
  "Failed to parse the AI's response. The model may have returned invalid JSON."
CommunicationFailedMessage == "Failed to communicate with the AI model."

RequirementItemFields == {"group", "id", "sequence", "description"}
FormattedResultFields == {"markdownOutput", "requirementsList"}

ConformingValue ==
  [markdownOutput |-> "# md",
   requirementsList |->
     << [group |-> "g", id |-> "UR-001", sequence |-> 1, description |-> "d"] >>]

(* Well-formed JSON that lacks the required requirementsList. *)
NonConformingValue == [markdownOutput |-> "# md"]

(* What response.text can be: JSON text of a conforming object, JSON text  *)
(* of another value, the text null, or text that is not JSON (this covers  *)
(* an undefined text as well).                                             *)
ResponseTexts ==
  { [parses |-> TRUE,  value |-> Some(ConformingValue)],
    [parses |-> TRUE,  value |-> Some(NonConformingValue)],
    [parses |-> TRUE,  value |-> null],
    [parses |-> FALSE, value |-> null] }

(* The classes of error generateContent can reject with. *)
ErrorClasses == {"ApiError", "SyntaxError"}

(* How the awaited generateContent call settles. *)
Outcomes ==
  [kind : {"response"}, text : ResponseTexts, errorClass : {"none"}]
    \cup
  [kind : {"reject"}, text : {[parses |-> FALSE, value |-> null]},
   errorClass : ErrorClasses]

(* The schema of lines 127-162 read as a predicate on a parsed value. *)
Conforms(v) ==
  /\ v # null
  /\ DOMAIN v[1] = FormattedResultFields
  /\ \A i \in 1..Len(v[1].requirementsList) :
       DOMAIN v[1].requirementsList[i] = RequirementItemFields

(* The guard at the head of formatRequirements. *)
RejectsInput(text, nParts) == trim(text) = <<>> /\ nParts = 0

(* The class of the error reaching the catch block, "none" if none does:  *)
(* a rejection of the call, or the SyntaxError of JSON.parse.              *)
CaughtClass(outcome) ==
  IF outcome.kind = "reject" THEN outcome.errorClass
  ELSE IF outcome.text.parses THEN "none" ELSE "SyntaxError"

(* The catch block of formatRequirements. *)
CatchMessage(class) ==
  IF class = "SyntaxError" THEN ParseFailedMessage
  ELSE CommunicationFailedMessage

(* Mutation: an error is swallowed and what was built so far is returned. *)
FormatRequirementsSettlePartial(outcome) ==
  IF CaughtClass(outcome) = "none"
  THEN [threw |-> FALSE, value |-> outcome.text.value, message |-> ""]
  ELSE [threw |-> FALSE, value |-> Some(NonConformingValue), message |-> ""]

(* formatRequirements from the settling of generateContent to its own     *)
(* settling: a returned value or a thrown Error with a message.           *)
FormatRequirementsSettle(outcome) ==
  IF CaughtClass(outcome) = "none"
  THEN [threw |-> FALSE, value |-> outcome.text.value, message |-> ""]
  ELSE [threw |-> TRUE, value |-> null,
        message |-> CatchMessage(CaughtClass(outcome))]

(* ------------------------------------------------------------ App.tsx *)
(* The Korean messages of handleFormat, written in ASCII. *)
InvalidInputMessage == <<"Enter requirement text or add an image file.">>
ErrorPrefix == "Error while formatting the requirements: "

Remove(s, i) == SubSeq(s, 1, i - 1) \o SubSeq(s, i + 1, Len(s))

NoOutcome ==
  [kind |-> "none", text |-> [parses |-> FALSE, value |-> null],
   errorClass |-> "none"]

Init ==
  /\ rawText = <<>>
  /\ files = <<>>
  /\ formattedResult = null
  /\ status = "IDLE"
  /\ error = null
  /\ requests = <<>>
  /\ readers = <<>>
  /\ lastOp = "init"
  /\ lastDone = null
  /\ download = null

(* Mutation: the guard ignores the attached files. *)
InputMissingTextOnly(text, fs) == trim(text) = <<>>

(* The guard at the head of handleFormat. *)
InputMissing(text, fs) == trim(text) = <<>> /\ Len(fs) = 0

(* Mutation: the result of the previous request is kept when a request    *)
(* starts.                                                                 *)
ResultOnStartKept(fr) == fr

(* setFormattedResult(null) when a request starts. *)
ResultOnStart(fr) == null

(* files.map(fileToPart): one pending readAsDataURL per attached file. *)
NewRequest(text, fs) ==
  [rawText |-> text, reads |-> [i \in 1..Len(fs) |-> "pending"],
   phase |-> "reading", calls |-> 0]

AllRead(reads) == \A i \in 1..Len(reads) : reads[i] = "done"

(* The continuation of handleFormat behind `await Promise.all(...)` for    *)
(* request i of reqs: it runs once every part is read (at once when there  *)
(* are no files) and enters formatRequirements, whose own input guard      *)
(* throws into handleFormat's catch and which otherwise issues the one     *)
(* generateContent call.  st, er, fr are the values App's state has        *)
(* before the continuation.                                                *)
Proceed(reqs, i, st, er, fr) ==
  IF AllRead(reqs[i].reads)
  THEN IF RejectsInput(reqs[i].rawText, Len(reqs[i].reads))
       THEN /\ requests' = Remove(reqs, i)
            /\ status' = "ERROR"
            /\ error' = Some(<<ErrorPrefix, EmptyInputMessage>>)
            /\ formattedResult' = fr
            /\ lastDone' = Some([rawText |-> reqs[i].rawText,
                                 nParts |-> Len(reqs[i].reads),
                                 calls |-> reqs[i].calls,
                                 outcome |-> NoOutcome])
       ELSE /\ requests' = [reqs EXCEPT ![i].phase = "calling",
                                        ![i].calls = @ + 1]
            /\ status' = st
            /\ error' = er
            /\ formattedResult' = fr
            /\ lastDone' = null
  ELSE /\ requests' = reqs
       /\ status' = st
       /\ error' = er
       /\ formattedResult' = fr
       /\ lastDone' = null

(* handleFormat up to its first suspension; cap bounds the requests in     *)
(* flight.                                                                 *)
handleFormat(cap) ==
  /\ UNCHANGED download
  /\ lastOp' = "handleFormat"
  /\ UNCHANGED <<rawText, files, readers>>
  /\ IF InputMissing(rawText, files)
     THEN /\ error' = Some(InvalidInputMessage)
          /\ status' = "ERROR"
          /\ lastDone' = null
          /\ UNCHANGED <<formattedResult, requests>>
     ELSE /\ Len(requests) < cap
          /\ Proceed(Append(requests, NewRequest(rawText, files)),
                     Len(requests) + 1,
                     "LOADING", null, ResultOnStart(formattedResult))

(* Mutation: the reset forgets setFiles([]). *)
handleClearKeepsFiles ==
  /\ UNCHANGED download
  /\ rawText' = <<>>
  /\ formattedResult' = null
  /\ error' = null
  /\ status' = "IDLE"
  /\ lastOp' = "handleClear"
  /\ lastDone' = null
  /\ UNCHANGED <<files, requests, readers>>

(* Mutation: the reset forgets setError(null). *)
handleClearKeepsError ==
  /\ UNCHANGED download
  /\ rawText' = <<>>
  /\ files' = <<>>
  /\ formattedResult' = null
  /\ status' = "IDLE"
  /\ lastOp' = "handleClear"
  /\ lastDone' = null
  /\ UNCHANGED <<error, requests, readers>>

handleClear ==
  /\ UNCHANGED download
  /\ rawText' = <<>>
  /\ files' = <<>>
  /\ formattedResult' = null
  /\ error' = null
  /\ status' = "IDLE"
  /\ lastOp' = "handleClear"
  /\ lastDone' = null
  /\ UNCHANGED <<requests, readers>>

(* reader.onloadend of fileToPart for part i of request r.  A read that    *)
(* succeeded resolves the part.  After a read that failed reader.result is *)
(* null, the callback's split throws before resolve is called, and the     *)
(* part's promise stays pending for ever.                                  *)
PartReadEnd(r, i, ok) ==
  /\ UNCHANGED download
  /\ r \in 1..Len(requests)
  /\ requests[r].phase = "reading"
  /\ i \in 1..Len(requests[r].reads)
  /\ requests[r].reads[i] = "pending"
  /\ lastOp' = "partReadEnd"
  /\ UNCHANGED <<rawText, files, readers>>
  /\ Proceed([requests EXCEPT ![r].reads[i] = IF ok THEN "done" ELSE "failed"],
             r, status, error, formattedResult)

(* generateContent settles for request r; formatRequirements settles and   *)
(* handleFormat resumes behind `await formatRequirements(...)`.            *)
ServiceSettle(r, outcome) ==
  /\ UNCHANGED download
  /\ r \in 1..Len(requests)
  /\ requests[r].phase = "calling"
  /\ LET res == FormatRequirementsSettle(outcome)
     IN  IF res.threw
         THEN /\ error' = Some(<<ErrorPrefix, res.message>>)
              /\ status' = "ERROR"
              /\ UNCHANGED formattedResult
         ELSE /\ formattedResult' = res.value
              /\ status' = "SUCCESS"
              /\ UNCHANGED error
  /\ requests' = Remove(requests, r)
  /\ lastOp' = "serviceSettle"
  /\ lastDone' = Some([rawText |-> requests[r].rawText,
                       nParts |-> Len(requests[r].reads),
                       calls |-> requests[r].calls,
                       outcome |-> outcome])
  /\ UNCHANGED <<rawText, files, readers>>

(* ------------------------------------------------- InputPanel.tsx (2) *)
isLoading == status = "LOADING"

(* Mutation: the format button is disabled while loading only. *)
FormatDisabledLoadingOnly(loading, text, fs) == loading

(* Mutation: the format button is disabled on missing input only. *)
FormatDisabledInputOnly(loading, text, fs) ==
  trim(text) = <<>> /\ Len(fs) = 0

(* The disabled attribute of the format button. *)
FormatDisabled(loading, text, fs) ==
  loading \/ (trim(text) = <<>> /\ Len(fs) = 0)

handleFileSelection(droppedFiles) ==
  /\ UNCHANGED download
  /\ files' = AddFiles(files, droppedFiles)
  /\ Len(files') <= MaxFiles
  /\ readers' = readers \o textFiles(droppedFiles)
  /\ Len(readers') <= MaxReaders
  /\ lastDone' = null
  /\ UNCHANGED <<rawText, formattedResult, status, error, requests>>

(* Dropping files on the panel; the drop zone has no disabled state. *)
onDrop ==
  /\ \E l \in FileLists : handleFileSelection(l)
  /\ lastOp' = "onDrop"

(* The hidden file input, opened by the file button (disabled while      *)
(* loading).                                                              *)
onFileChange ==
  /\ ~isLoading
  /\ \E l \in FileLists : handleFileSelection(l)
  /\ lastOp' = "onFileChange"

removeFile ==
  /\ UNCHANGED download
  /\ \E index \in 1..Len(files) : files' = Remove(files, index)
  /\ lastOp' = "removeFile"
  /\ lastDone' = null
  /\ UNCHANGED <<rawText, formattedResult, status, error, requests, readers>>

(* reader.onload of a text file, or the end of a read that failed (no     *)
(* onerror handler is set: nothing is appended).                          *)
TextReadEnd ==
  /\ UNCHANGED download
  /\ \E i \in 1..Len(readers), ok \in BOOLEAN :
       /\ rawText' = IF ok THEN AppendText(rawText, readers[i], readers[i].data)
                     ELSE rawText
       /\ Len(rawText') <= MaxText
       /\ readers' = Remove(readers, i)
       /\ lastOp' = IF ok THEN "textReadEnd" ELSE "textReadError"
  /\ lastDone' = null
  /\ UNCHANGED <<files, formattedResult, status, error, requests>>

(* onChange of the textarea (disabled while loading). *)
onChange ==
  /\ UNCHANGED download
  /\ ~isLoading
  /\ \E t \in TypedTexts : rawText' = t
  /\ lastOp' = "onChange"
  /\ lastDone' = null
  /\ UNCHANGED <<files, formattedResult, status, error, requests, readers>>

ClickFormat ==
  /\ ~FormatDisabled(isLoading, rawText, files)
  /\ handleFormat(MaxRequests)

ClickClear ==
  /\ ~isLoading
  /\ handleClear

PartRead == \E r \in 1..MaxRequests, i \in 1..MaxFiles, ok \in BOOLEAN :
              PartReadEnd(r, i, ok)

Service == \E r \in 1..MaxRequests, outcome \in Outcomes :
             ServiceSettle(r, outcome)

(* The application: the handlers behind the rendered controls. *)
Next ==
  \/ onChange
  \/ ClickFormat
  \/ ClickClear
  \/ onDrop
  \/ onFileChange
  \/ removeFile
  \/ TextReadEnd
  \/ PartRead
  \/ Service

Spec == Init /\ [][Next]_vars

(* The environment completes every read it was asked for and the service  *)
(* settles every call.                                                     *)
FairSpec == Spec /\ WF_vars(PartRead) /\ WF_vars(Service) /\ WF_vars(TextReadEnd)

(* The App component driven through its props alone (onFormat, onClear,   *)
(* setRawText, setFiles), without InputPanel's disabled attributes.       *)
OnFormat == handleFormat(MaxDirect)

OnClear == handleClear

SetRawText ==
  /\ UNCHANGED download
  /\ \E t \in TypedTexts : rawText' = t
  /\ lastOp' = "setRawText"
  /\ lastDone' = null
  /\ UNCHANGED <<files, formattedResult, status, error, requests, readers>>

SetFiles ==
  /\ UNCHANGED download
  /\ \E l \in FileLists : files' = AddFiles(files, l)
  /\ Len(files') <= MaxFiles
  /\ lastOp' = "setFiles"
  /\ lastDone' = null
  /\ UNCHANGED <<rawText, formattedResult, status, error, requests, readers>>

NextProps ==
  \/ OnFormat
  \/ OnClear
  \/ SetRawText
  \/ SetFiles
  \/ removeFile
  \/ PartRead
  \/ Service

SpecProps == Init /\ [][NextProps]_vars

(* ------------------------------------------------------ OutputPanel.tsx *)
(* The byte-order mark U+FEFF, one token. *)
BOM == "<U+FEFF>"

(* The four Korean column titles, written in ASCII. *)
headers ==
  << <<"Requirement group">>, <<"Requirement ID">>,
     <<"Requirement sequence">>, <<"Details">> >>

Digits == <<"0", "1", "2", "3", "4", "5", "6", "7", "8", "9">>

(* String(field) of a sequence number below one hundred. *)
NumberToString(n) ==
  IF n < 10 THEN <<Digits[n + 1]>>
  ELSE <<Digits[(n \div 10) + 1], Digits[(n % 10) + 1]>>

includes(stringField, c) == \E i \in 1..Len(stringField) : stringField[i] = c

(* stringField.replace(/"/g, '""') *)
RECURSIVE replaceQuotes(_)
replaceQuotes(stringField) ==
  IF stringField = <<>> THEN <<>>
  ELSE (IF Head(stringField) = "\"" THEN <<"\"", "\"">>
        ELSE <<Head(stringField)>>) \o replaceQuotes(Tail(stringField))

escapeCsvField(stringField) ==
  IF includes(stringField, ",") \/ includes(stringField, "\"")
       \/ includes(stringField, "\n")
  THEN <<"\"">> \o replaceQuotes(stringField) \o <<"\"">>
  ELSE stringField

(* Array.prototype.join *)
RECURSIVE join(_, _)
join(parts, sep) ==
  IF parts = <<>> THEN <<>>
  ELSE IF Len(parts) = 1 THEN parts[1]
  ELSE parts[1] \o <<sep>> \o join(Tail(parts), sep)

(* Mutation: the identifier and the group change places. *)
CsvRowSwapped(item) ==
  join(<< escapeCsvField(item.id),
          escapeCsvField(item.group),
          escapeCsvField(NumberToString(item.sequence)),
          escapeCsvField(item.description) >>, ",")

(* The row the map callback builds for one item. *)
CsvRow(item) ==
  join(<< escapeCsvField(item.group),
          escapeCsvField(item.id),
          escapeCsvField(NumberToString(item.sequence)),
          escapeCsvField(item.description) >>, ",")

csvContent(requirementsList) ==
  join(<<join(headers, ",")>>
         \o [k \in 1..Len(requirementsList) |-> CsvRow(requirementsList[k])],
       "\n")

(* The CSV button, rendered in status SUCCESS: nothing is downloaded      *)
(* without a result or with an empty list, and the blob is the byte-order *)
(* mark followed by csvContent otherwise.                                 *)
handleDownloadCsv ==
  /\ status = "SUCCESS"
  /\ IF formattedResult = null
     THEN UNCHANGED download
     ELSE IF Len(formattedResult[1].requirementsList) = 0
          THEN UNCHANGED download
          ELSE download' =
                 Some(<<BOM>> \o csvContent(formattedResult[1].requirementsList))
  /\ lastOp' = "handleDownloadCsv"
  /\ UNCHANGED <<rawText, files, formattedResult, status, error,
                 requests, readers, lastDone>>

(* Field values of the results the export is applied to. *)
MaxField == 2
MaxItems == 2

CsvChars == {"a", ",", "\"", "\n", "\r"}

Descriptions == UNION { [1..n -> CsvChars] : n \in 0..MaxField }

ItemHeads ==
  { [group |-> <<"g">>, id |-> <<"U">>, sequence |-> 1],
    [group |-> <<",", "g">>, id |-> <<"U", "\"">>, sequence |-> 12] }

Items ==
  { [group |-> h.group, id |-> h.id, sequence |-> h.sequence,
     description |-> d] : h \in ItemHeads, d \in Descriptions }

CsvResults ==
  { [markdownOutput |-> "# md", requirementsList |-> l] :
      l \in UNION { [1..n -> Items] : n \in 0..MaxItems } }

(* The state after a request that succeeded with one of CsvResults and    *)
(* after the textarea was emptied.                                        *)
InitCsv ==
  /\ rawText = <<>>
  /\ files = <<>>
  /\ formattedResult \in { Some(r) : r \in CsvResults }
  /\ status = "SUCCESS"
  /\ error = null
  /\ requests = <<>>
  /\ readers = <<>>
  /\ lastOp = "onChange"
  /\ lastDone = null
  /\ download = null

NextCsv == handleDownloadCsv

SpecCsv == InitCsv /\ [][NextCsv]_vars

TypeOK ==
  /\ status \in AppStatus
  /\ Len(rawText) <= MaxText
  /\ Len(files) <= MaxFiles
  /\ Len(requests) <= MaxRequests
  /\ Len(readers) <= MaxReaders
  /\ Len(formattedResult) <= 1
  /\ Len(error) <= 1

(* ------------------------------------------------------------ claims *)
(* C1: a FormattedResult is present only when the status is SUCCESS, so a  *)
(* request that has just started (LOADING) and a reset (IDLE) both leave   *)
(* the result absent.                                                      *)
C1_ResultOnlyOnSuccess == formattedResult # null => status = "SUCCESS"

C1_Witness ==
  /\ lastOp = "serviceSettle"
  /\ status = "SUCCESS"
  /\ formattedResult # null

(* C2: SUCCESS and ERROR are entered only from LOADING, LOADING only from  *)
(* IDLE, ERROR or SUCCESS, and every submit leaves the status LOADING.     *)
C2_LinearTransitions ==
  [][ /\ (status' \in {"SUCCESS", "ERROR"} /\ status' # status)
           => status = "LOADING"
      /\ (status' = "LOADING" /\ status' # status)
           => status \in {"IDLE", "ERROR", "SUCCESS"}
      /\ lastOp' = "handleFormat" => status' = "LOADING" ]_vars

C2_Witness ==
  /\ lastOp = "serviceSettle"
  /\ status = "ERROR"
  /\ requests = <<>>

(* C3: at most one request is in flight and it has made at most one call   *)
(* of the service, whatever the user does while the status is LOADING.     *)
C3_OneInFlight ==
  /\ Len(requests) <= 1
  /\ \A r \in 1..Len(requests) : requests[r].calls <= 1

C3_Witness ==
  /\ status = "LOADING"
  /\ Len(requests) = 1
  /\ requests[1].phase = "calling"
  /\ lastOp = "onDrop"

(* C4: whenever the status becomes LOADING it eventually becomes SUCCESS   *)
(* or ERROR, whether the reads of fileToPart succeed or fail.              *)
C4_LoadingEnds == (status = "LOADING") ~> (status \in {"SUCCESS", "ERROR"})

(* C5: a submit with text that trims to nothing and no files is rejected   *)
(* (ERROR with a message, no request started, no call made); a submit with *)
(* anything else, whitespace with a file included, starts a request.       *)
C5_InvalidInputRejected ==
  [][ lastOp' = "handleFormat" =>
        IF trim(rawText) = <<>> /\ files = <<>>
        THEN /\ status' = "ERROR"
             /\ error' # null
             /\ requests' = requests
        ELSE /\ status' = "LOADING"
             /\ Len(requests') = Len(requests) + 1 ]_vars

C5_Witness ==
  /\ lastOp = "handleFormat"
  /\ rawText = <<" ">>
  /\ files = <<>>
  /\ status = "ERROR"
  /\ error = Some(InvalidInputMessage)

IsFailure(outcome) == outcome.kind # "response" \/ ~outcome.text.parses

(* C6: a request with non-empty text and no files ends in SUCCESS exactly  *)
(* when the service returned a payload conforming to the schema, and       *)
(* otherwise in ERROR with the parse or the communication message.         *)
C6_SuccessIffConforming ==
  (lastOp = "serviceSettle" /\ lastDone[1].nParts = 0
     /\ trim(lastDone[1].rawText) # <<>>)
  => LET o == lastDone[1].outcome
     IN  IF o.kind = "response" /\ o.text.parses /\ Conforms(o.text.value)
         THEN status = "SUCCESS"
         ELSE /\ status = "ERROR"
              /\ error \in { Some(<<ErrorPrefix, ParseFailedMessage>>),
                             Some(<<ErrorPrefix, CommunicationFailedMessage>>) }

(* C7: text that is not JSON always gives the parse message and a failure  *)
(* of the call always gives the communication message.                     *)
C7_FailureKindsDistinguished ==
  lastOp = "serviceSettle"
  => LET o == lastDone[1].outcome
     IN  /\ (o.kind = "response" /\ ~o.text.parses)
               => error = Some(<<ErrorPrefix, ParseFailedMessage>>)
         /\ o.kind = "reject"
               => error = Some(<<ErrorPrefix, CommunicationFailedMessage>>)

(* C8: a settled invocation made exactly one call, a request in flight has *)
(* made at most one, and after a failed request no request is retried and  *)
(* the result is absent.                                                   *)
C8_OneCallNoPartialResult ==
  /\ \A r \in 1..Len(requests) :
       requests[r].calls = IF requests[r].phase = "calling" THEN 1 ELSE 0
  /\ lastOp = "serviceSettle"
       => /\ lastDone[1].calls = 1
          /\ IsFailure(lastDone[1].outcome)
               => /\ formattedResult = null
                  /\ status = "ERROR"
                  /\ requests = <<>>

C8_Witness ==
  /\ lastOp = "serviceSettle"
  /\ IsFailure(lastDone[1].outcome)
  /\ lastDone[1].calls = 1
  /\ formattedResult = null

(* C9: no two retained attachments have the same name. *)
C9_NamesUnique ==
  \A i, j \in 1..Len(files) : i # j => files[i].name # files[j].name

(* C10 as stated: a file of a text type is never in the attachment list,  *)
(* and a completed import leaves the buffer as the prior buffer, the       *)
(* separator and the content, for every prior buffer.                      *)
C10_Original ==
  /\ [](\A i \in 1..Len(files) : ~IsTextFile(files[i]))
  /\ [][ lastOp' = "textReadEnd" =>
           \E i \in 1..Len(readers) :
             /\ readers' = Remove(readers, i)
             /\ rawText' = rawText \o Separator(readers[i].name)
                                   \o readers[i].data ]_vars

(* C10 amended: a completed import leaves the content alone in an empty    *)
(* buffer and the prior buffer, the separator and the content otherwise;   *)
(* a file of a text type is in the attachment list only if its name ends   *)
(* in .hwp in any letter case.                                             *)
C10_Amended ==
  /\ [](\A i \in 1..Len(files) :
          IsTextFile(files[i]) => files[i].name[2] \in {".hwp", ".HWP"})
  /\ [][ lastOp' = "textReadEnd" =>
           \E i \in 1..Len(readers) :
             /\ readers' = Remove(readers, i)
             /\ rawText' = IF rawText = <<>> THEN readers[i].data
                           ELSE rawText \o Separator(readers[i].name)
                                        \o readers[i].data ]_vars

C10_Witness ==
  /\ lastOp = "textReadEnd"
  /\ Len(rawText) > Len(Separator(<<"n", ".txt">>))
  /\ \E i \in 1..Len(files) : IsTextFile(files[i])

Occurrences(s, c) == Cardinality({ i \in 1..Len(s) : s[i] = c })

PendingWith(rs, c) == Cardinality({ i \in 1..Len(rs) : rs[i].data = <<c>> })

ContentTokens == { f.data[1] : f \in FileUniverse }

IsPrefix(s, t) == Len(s) <= Len(t) /\ SubSeq(t, 1, Len(s)) = s

(* C11: every completed read of a text file keeps what the buffer held    *)
(* and adds its own content once, in whatever order the reads complete:   *)
(* for each content, its occurrences in the buffer plus the reads of it   *)
(* still pending stay the same, so when all reads have completed every    *)
(* imported content is in the buffer exactly once.                        *)
C11_NoAppendLost ==
  [][ lastOp' = "textReadEnd" =>
        /\ IsPrefix(rawText, rawText')
        /\ \A c \in ContentTokens :
             Occurrences(rawText', c) + PendingWith(readers', c)
               = Occurrences(rawText, c) + PendingWith(readers, c) ]_vars

C11_Witness ==
  /\ lastOp = "textReadEnd"
  /\ readers = <<>>
  /\ Occurrences(rawText, "t") = 1
  /\ Occurrences(rawText, "u") = 1
  /\ rawText[1] = "u"

(* C12: the reset performed in status SUCCESS leaves the text buffer and  *)
(* the attachment list empty, the result and the error absent and the     *)
(* status IDLE.                                                           *)
C12_ResetClears ==
  [][ (lastOp' = "handleClear" /\ status = "SUCCESS") =>
        /\ rawText' = <<>>
        /\ files' = <<>>
        /\ formattedResult' = null
        /\ error' = null
        /\ status' = "IDLE" ]_vars

C12_Witness ==
  /\ lastOp = "handleClear"
  /\ status = "IDLE"
  /\ rawText = <<>>
  /\ files = <<>>
  /\ formattedResult = null
  /\ error = null

(* C15: the error message is present exactly when the status is ERROR. *)
C15_ErrorIffErrorStatus == (error # null) <=> (status = "ERROR")

C15_Witness ==
  /\ status = "ERROR"
  /\ error = Some(<<ErrorPrefix, CommunicationFailedMessage>>)
  /\ formattedResult = null

(* A standard CSV reader (RFC 4180): a leading byte-order mark is         *)
(* skipped; outside quotes a comma ends a field and a line break, LF or   *)
(* CR LF, ends a record; a quote at the start of a field opens a quoted   *)
(* field, in which a doubled quote is one quote and a single one closes.  *)
RECURSIVE ParseFrom(_, _, _, _, _, _)
ParseFrom(s, i, inQuotes, field, record, records) ==
  IF i > Len(s) THEN Append(records, Append(record, field))
  ELSE IF inQuotes
  THEN IF s[i] = "\""
       THEN IF i < Len(s) /\ s[i + 1] = "\""
            THEN ParseFrom(s, i + 2, TRUE, Append(field, "\""), record, records)
            ELSE ParseFrom(s, i + 1, FALSE, field, record, records)
       ELSE ParseFrom(s, i + 1, TRUE, Append(field, s[i]), record, records)
  ELSE IF s[i] = "\"" /\ field = <<>>
       THEN ParseFrom(s, i + 1, TRUE, field, record, records)
  ELSE IF s[i] = ","
       THEN ParseFrom(s, i + 1, FALSE, <<>>, Append(record, field), records)
  ELSE IF s[i] = "\n"
       THEN ParseFrom(s, i + 1, FALSE, <<>>, <<>>,
                      Append(records, Append(record, field)))
  ELSE IF s[i] = "\r" /\ i < Len(s) /\ s[i + 1] = "\n"
       THEN ParseFrom(s, i + 2, FALSE, <<>>, <<>>,
                      Append(records, Append(record, field)))
  ELSE ParseFrom(s, i + 1, FALSE, Append(field, s[i]), record, records)

ParseCsv(s) ==
  ParseFrom(IF s # <<>> /\ s[1] = BOM THEN Tail(s) ELSE s,
            1, FALSE, <<>>, <<>>, <<>>)

(* The escaping the specification words: wrapped in quotes with every     *)
(* quote doubled when the value holds a comma, a quote or a newline.      *)
RECURSIVE Doubled(_)
Doubled(v) ==
  IF v = <<>> THEN <<>>
  ELSE Doubled(SubSeq(v, 1, Len(v) - 1))
         \o (IF v[Len(v)] = "\"" THEN <<"\"", "\"">> ELSE <<v[Len(v)]>>)

QuoteRule(v) ==
  IF \E i \in 1..Len(v) : v[i] \in {",", "\"", "\n"}
  THEN <<"\"">> \o Doubled(v) \o <<"\"">>
  ELSE v

FieldValues(item) ==
  << item.group, item.id, NumberToString(item.sequence), item.description >>

(* C13: every exported field follows the escaping rule, and a standard    *)
(* CSV reader gets back the header and, for every item, its four field    *)
(* values exactly.                                                        *)
C13_CsvRoundTrip ==
  download # null =>
    LET list == formattedResult[1].requirementsList
    IN  /\ \A k \in 1..Len(list) : \A j \in 1..4 :
             escapeCsvField(FieldValues(list[k])[j])
               = QuoteRule(FieldValues(list[k])[j])
        /\ ParseCsv(download[1])
             = <<headers>> \o [k \in 1..Len(list) |-> FieldValues(list[k])]

ExpectedHeaderRow ==
  <<"Requirement group", ",", "Requirement ID", ",",
    "Requirement sequence", ",", "Details">>

RECURSIVE ExpectedDataRows(_)
ExpectedDataRows(list) ==
  IF list = <<>> THEN <<>>
  ELSE <<"\n">> \o QuoteRule(Head(list).group)
         \o <<",">> \o QuoteRule(Head(list).id)
         \o <<",">> \o QuoteRule(NumberToString(Head(list).sequence))
         \o <<",">> \o QuoteRule(Head(list).description)
         \o ExpectedDataRows(Tail(list))

(* The line feeds of s that lie outside quoted fields. *)
RowBreaks(s) ==
  Cardinality({ i \in 1..Len(s) :
                  /\ s[i] = "\n"
                  /\ Cardinality({ j \in 1..(i - 1) : s[j] = "\"" }) % 2 = 0 })

(* C14: the export of n >= 1 items is the byte-order mark, the header row *)
(* group, identifier, sequence, description, and then n data rows, one    *)
(* per item in list order with the item's group, id, sequence and         *)
(* description in that order; nothing is exported for an empty list.      *)
C14_CsvLayout ==
  LET list == formattedResult[1].requirementsList
  IN  /\ lastOp = "handleDownloadCsv" => (download # null <=> Len(list) >= 1)
      /\ download # null =>
           /\ download[1] = <<BOM>> \o ExpectedHeaderRow \o ExpectedDataRows(list)
           /\ RowBreaks(download[1]) = Len(list)

C14_Witness ==
  /\ download # null
  /\ Len(formattedResult[1].requirementsList) = 2
  /\ formattedResult[1].requirementsList[1].description = <<"a", "\n">>
  /\ formattedResult[1].requirementsList[2].group = <<",", "g">>
====
